---- MODULE Spec2Model ----
(***************************************************************************)
(* The authenticated HTTP client of the task manager front end: the token  *)
(* store (tokenManager), the axios request interceptor that attaches the   *)
(* bearer credential, and the response interceptor that refreshes the      *)
(* credential on a 401, parks concurrent 401s on failedQueue and replays   *)
(* them.                                                                   *)
(*                                                                         *)
(* Execution model: JavaScript's event loop.  A macrotask (a caller        *)
(* issuing a request, a response arriving, a logout) runs to completion    *)
(* and is followed by the promise reactions it scheduled, in FIFO order,   *)
(* before the next macrotask starts.  The variable microtasks is that      *)
(* reaction queue; every macrotask action is guarded by its emptiness.     *)
(*                                                                         *)
(* Spec is the api client alone.  SpecDirect adds the callers of           *)
(* authService.refreshToken.  TimeoutSpec and FairSpec add fairness to     *)
(* Spec.  AppSpec is the page shell around the client: the Next.js         *)
(* middleware that guards the routes and the current-user query.           *)
(***************************************************************************)
EXTENDS Integers, Sequences, FiniteSets, TLC

\* ------------------------------------------------------------------ bounds
NumRequests == 3

Requests == 1..NumRequests

\* ------------------------------------------------------------- value space
\* null / undefined / absent: falsy in the code's `if (token)` tests
NoToken == 0
\* a field missing from the refresh response body (JavaScript undefined)
Missing == 0
\* the cookie text "undefined", which js-cookie writes for an undefined value
UndefinedStr == -1
\* a cookie that is present with the empty text as its value
EmptyValue == -3
\* the credentials the session starts with
InitialToken == 1

\* no response at all (network error, timeout): error.response is undefined
NoResponse == 0
\* no failure is being handled for the request
NoError == -2
\* one status for each path of the handlers: success, 401, a client error (403;
\* the handler treats 404 alike, with another toast), a server error, no response
Statuses == {200, 401, 403, 500, NoResponse}
RefreshFailures == {401, NoResponse}

NoHeader == << >>
NoValue == [src |-> "none", req |-> 0, status |-> 0]
Undefined == [src |-> "undefined", req |-> 0, status |-> 0]
Pending == [state |-> "pending", val |-> NoValue]

VARIABLES
    accessCookie,   \* Cookies 'access_token'
    refreshCookie,  \* Cookies 'refresh_token'
    isRefreshing,   \* module variable isRefreshing
    failedQueue,    \* module variable failedQueue: the parked requests, in push order
    microtasks,     \* promise reactions scheduled and not yet run
    phase,          \* per request: where its flow stands
    retry,          \* per request: originalRequest._retry
    header,         \* per request: config.headers.Authorization
    dispatches,     \* per request: how many times it was put on the wire
    outcome,        \* per request: the promise the caller holds
    refreshOwner,   \* the request whose handler awaits axios.post(refresh), or 0
    errorStatus,    \* per request: error.response?.status of the failure being handled
    target,         \* per request: the endpoint it is addressed to
    redirects,      \* history: assignments of '/auth/login' to window.location.href
    url,            \* the page request the middleware is given: pathname, ?from=
    navigation,     \* "idle", "requested" (before the middleware), "served"
    hops,           \* redirects answered by the middleware since the request began
    failureCount,   \* current-user query: failures of the fetch so far
    queryStatus,    \* current-user query: "idle", "retrying", "success", "error"
    queryError      \* current-user query: the error getCurrentUser threw last

vars == <<accessCookie, refreshCookie, isRefreshing, failedQueue, microtasks,
          phase, retry, header, dispatches, outcome, refreshOwner, errorStatus,
          target, redirects, url, navigation, hops, failureCount,
          queryStatus, queryError>>

\* the page shell around the client: the middleware and the current-user query
appVars == <<url, navigation, hops, failureCount, queryStatus, queryError>>

\* ------------------------------------------------------------ tokenManager
\* lines 38-41 and 57-60: Cookies.get(name) || null
getToken == IF accessCookie = EmptyValue THEN NoToken ELSE accessCookie

getRefreshToken == IF refreshCookie = EmptyValue THEN NoToken ELSE refreshCookie

\* conversion of a value to text, as Cookies.set and a template literal do it:
\* undefined becomes the text "undefined"
Stringify(value) == IF value = Missing THEN UndefinedStr ELSE value

setTokenSkipped(old, token) == old

setToken(old, token) == Stringify(token)

setRefreshToken(old, token) == Stringify(token)

\* lines 76-79: clearAll removes both cookies; applied to each of them
clearAllKeeps(cookie) == cookie

clearAll(cookie) == NoToken

\* `Bearer ${token}`
Bearer(token) == <<"Bearer", Stringify(token)>>

\* ----------------------------------------------------- request interceptor
\* api.interceptors.request.use: the stored access credential, when there is
\* one, overwrites the Authorization header; otherwise the config is unchanged
attachNever(config) == config

attach(config) == IF getToken # NoToken THEN Bearer(getToken) ELSE config

\* ---------------------------------------------------- response interceptor
ResponseOf(r, status) == [src |-> "response", req |-> r, status |-> status]

RefreshError(r, status) == [src |-> "refresh", req |-> r, status |-> status]

Rejected(err) == [state |-> "rejected", val |-> err]

Fulfilled(val) == [state |-> "fulfilled", val |-> val]

\* a scheduled promise reaction: "resume" is the .then/.catch of a parked
\* promise, "dispatch" is the request chain of an api(config) call
Task(kind, r, token, err) == [kind |-> kind, req |-> r, token |-> token, err |-> err]

\* processQueue: every entry is rejected with the error, or resolved with the
\* token; the reactions of the parked promises are scheduled in queue order
processQueueReversed(error, token) ==
    [i \in 1..Len(failedQueue) |->
        Task("resume", failedQueue[Len(failedQueue) + 1 - i], token, error)]

processQueue(error, token) ==
    [i \in 1..Len(failedQueue) |-> Task("resume", failedQueue[i], token, error)]

\* line 118: failedQueue = []
emptiedNot(queue) == queue

emptied(queue) == << >>

Range(s) == {s[i] : i \in 1..Len(s)}

\* ------------------------------------------------------------------- Init
Init ==
    /\ accessCookie \in {NoToken, InitialToken}
    /\ refreshCookie \in {NoToken, InitialToken}
    /\ isRefreshing = FALSE
    /\ failedQueue = << >>
    /\ microtasks = << >>
    /\ phase = [r \in Requests |-> "new"]
    /\ retry = [r \in Requests |-> FALSE]
    /\ header = [r \in Requests |-> NoHeader]
    /\ dispatches = [r \in Requests |-> 0]
    /\ outcome = [r \in Requests |-> Pending]
    /\ refreshOwner = 0
    /\ errorStatus = [r \in Requests |-> NoError]
    /\ target = [r \in Requests |-> "resource"]
    /\ redirects = 0
    /\ url = [pathname |-> << >>, from |-> << >>]
    /\ navigation = "idle"
    /\ hops = 0
    /\ failureCount = 0
    /\ queryStatus = "idle"
    /\ queryError = NoValue

\* the event loop takes the next macrotask only when no reaction is pending:
\* no scheduled job, and no authService.refreshToken call whose awaited
\* api.post has settled and whose continuation has not run yet
Quiescent ==
    /\ microtasks = << >>
    /\ \A r \in Requests : ~(target[r] = "refresh" /\ phase[r] = "done")

\* once the caller's promise is settled nothing refers to the request config any
\* more: its fields (_retry, headers) and its dispatch count are dropped
Forget(r) ==
    /\ retry' = [retry EXCEPT ![r] = FALSE]
    /\ header' = [header EXCEPT ![r] = NoHeader]
    /\ dispatches' = [dispatches EXCEPT ![r] = 0]
    /\ errorStatus' = [errorStatus EXCEPT ![r] = NoError]

\* ---------------------------------------------------------------- callers
\* a caller invokes api(config); requests are numbered in call order
Send(r) ==
    /\ Quiescent
    /\ phase[r] = "new"
    /\ \A q \in Requests : q < r => phase[q] # "new"
    /\ phase' = [phase EXCEPT ![r] = "dispatching"]
    /\ microtasks' = <<Task("dispatch", r, NoToken, NoValue)>>
    /\ UNCHANGED <<accessCookie, refreshCookie, isRefreshing, failedQueue, retry,
                   header, dispatches, outcome, refreshOwner, redirects, errorStatus, target, appVars>>

\* authService.logout
Logout ==
    /\ Quiescent
    /\ accessCookie' = clearAll(accessCookie)
    /\ refreshCookie' = clearAll(refreshCookie)
    /\ UNCHANGED <<isRefreshing, failedQueue, microtasks, phase, retry, header,
                   dispatches, outcome, refreshOwner, redirects, errorStatus, target, appVars>>

\* ---------------------------------------------------------- promise jobs
\* the request chain of api(config): request interceptor, then the adapter
RunDispatch ==
    /\ microtasks # << >>
    /\ Head(microtasks).kind = "dispatch"
    /\ LET r == Head(microtasks).req IN
        /\ header' = [header EXCEPT ![r] = attach(header[r])]
        /\ dispatches' = [dispatches EXCEPT ![r] = @ + 1]
        /\ phase' = [phase EXCEPT ![r] = "inflight"]
        /\ errorStatus' = [errorStatus EXCEPT ![r] = NoError]
    /\ microtasks' = Tail(microtasks)
    /\ UNCHANGED <<accessCookie, refreshCookie, isRefreshing, failedQueue, retry,
                   outcome, refreshOwner, redirects, target, appVars>>

\* lines 139-141: the parked promise was rejected; the caller is rejected with
\* the same error and nothing else happens
RejectParkedTeardown(r, err) ==
    /\ outcome' = [outcome EXCEPT ![r] = Rejected(err)]
    /\ phase' = [phase EXCEPT ![r] = "done"]
    /\ Forget(r)
    /\ microtasks' = Tail(microtasks)
    /\ accessCookie' = NoToken
    /\ refreshCookie' = NoToken
    /\ redirects' = redirects + 1
    /\ UNCHANGED <<isRefreshing, failedQueue, refreshOwner, target, appVars>>

RejectParked(r, err) ==
    /\ outcome' = [outcome EXCEPT ![r] = Rejected(err)]
    /\ phase' = [phase EXCEPT ![r] = "done"]
    /\ Forget(r)
    /\ microtasks' = Tail(microtasks)
    /\ UNCHANGED <<accessCookie, refreshCookie, isRefreshing, failedQueue,
                   refreshOwner, redirects, target, appVars>>

\* lines 135-138: the parked promise was resolved with a token; the header is
\* rewritten and the request goes through api() again (_retry is not set)
ReplayParked(r, token) ==
    /\ header' = [header EXCEPT ![r] = Bearer(token)]
    /\ phase' = [phase EXCEPT ![r] = "replaying"]
    /\ microtasks' = Append(Tail(microtasks), Task("dispatch", r, token, NoValue))
    /\ UNCHANGED <<accessCookie, refreshCookie, isRefreshing, failedQueue, retry,
                   dispatches, outcome, refreshOwner, redirects, errorStatus, target, appVars>>

\* line 135, the test fails: the .then callback returns nothing and the caller's
\* promise fulfils with undefined
ResolveUndefined(r) ==
    /\ outcome' = [outcome EXCEPT ![r] = Fulfilled(Undefined)]
    /\ phase' = [phase EXCEPT ![r] = "done"]
    /\ Forget(r)
    /\ microtasks' = Tail(microtasks)
    /\ UNCHANGED <<accessCookie, refreshCookie, isRefreshing, failedQueue,
                   refreshOwner, redirects, target, appVars>>

\* the .then((token) => ...) / .catch of a promise parked on failedQueue
RunResume ==
    /\ microtasks # << >>
    /\ Head(microtasks).kind = "resume"
    /\ LET t == Head(microtasks) IN
         IF t.err # NoValue
         THEN RejectParked(t.req, t.err)
         ELSE IF t.token # NoToken
              THEN ReplayParked(t.req, t.token)
              ELSE ResolveUndefined(t.req)

\* ------------------------------------------------ response interceptor
\* line 129: the failure is a 401 and the request is not marked _retry
retryEligibleAnyError(r, status) == status # 200 /\ ~retry[r]

retryEligible(r, status) == status = 401 /\ ~retry[r]

\* line 130: a refresh is under way, park the request
mustQueueNever == FALSE

mustQueueAlways == TRUE

mustQueue == isRefreshing

\* (response) => response
OnFulfilled(r, status) ==
    /\ outcome' = [outcome EXCEPT ![r] = Fulfilled(ResponseOf(r, status))]
    /\ phase' = [phase EXCEPT ![r] = "done"]
    /\ Forget(r)
    /\ UNCHANGED <<accessCookie, refreshCookie, isRefreshing, failedQueue,
                   microtasks, refreshOwner, redirects, target, appVars>>

\* lines 131-141: park the request on failedQueue
Park(r, status) ==
    /\ failedQueue' = Append(failedQueue, r)
    /\ phase' = [phase EXCEPT ![r] = "parked"]
    /\ errorStatus' = [errorStatus EXCEPT ![r] = status]
    /\ UNCHANGED <<accessCookie, refreshCookie, isRefreshing, microtasks, retry, header,
                   dispatches, outcome, refreshOwner, redirects, target, appVars>>

\* lines 144-157: no refresh credential is stored; the return is outside the
\* try block, so the finally clause that resets isRefreshing does not run
NoRefreshToken(r, status) ==
    /\ isRefreshing' = TRUE
    /\ accessCookie' = clearAll(accessCookie)
    /\ refreshCookie' = clearAll(refreshCookie)
    /\ microtasks' = processQueue(ResponseOf(r, status), NoToken)
    /\ failedQueue' = emptied(failedQueue)
    /\ redirects' = redirects + 1
    /\ outcome' = [outcome EXCEPT ![r] = Rejected(ResponseOf(r, status))]
    /\ phase' = [phase EXCEPT ![r] = "done"]
    /\ Forget(r)
    /\ UNCHANGED <<refreshOwner, target, appVars>>

\* lines 144-163: start the refresh exchange and await it
StartRefresh(r, status) ==
    /\ retry' = [retry EXCEPT ![r] = TRUE]
    /\ isRefreshing' = TRUE
    /\ refreshOwner' = r
    /\ phase' = [phase EXCEPT ![r] = "refreshing"]
    /\ errorStatus' = [errorStatus EXCEPT ![r] = status]
    /\ UNCHANGED <<accessCookie, refreshCookie, failedQueue, microtasks, header,
                   dispatches, outcome, redirects, target, appVars>>

\* lines 197-207: any other failure is handed to the caller
OtherErrorTeardown(r, status) ==
    /\ outcome' = [outcome EXCEPT ![r] = Rejected(ResponseOf(r, status))]
    /\ phase' = [phase EXCEPT ![r] = "done"]
    /\ Forget(r)
    /\ accessCookie' = IF status = 401 THEN NoToken ELSE accessCookie
    /\ refreshCookie' = IF status = 401 THEN NoToken ELSE refreshCookie
    /\ redirects' = IF status = 401 THEN redirects + 1 ELSE redirects
    /\ UNCHANGED <<isRefreshing, failedQueue, microtasks, refreshOwner, target, appVars>>

OtherErrorCaught(r, status) ==
    /\ outcome' = [outcome EXCEPT ![r] = Rejected(ResponseOf(r, status))]
    /\ phase' = [phase EXCEPT ![r] = "done"]
    /\ Forget(r)
    /\ accessCookie' = IF retry[r] THEN NoToken ELSE accessCookie
    /\ refreshCookie' = IF retry[r] THEN NoToken ELSE refreshCookie
    /\ redirects' = IF retry[r] THEN redirects + 1 ELSE redirects
    /\ UNCHANGED <<isRefreshing, failedQueue, microtasks, refreshOwner, target, appVars>>

OtherError(r, status) ==
    /\ outcome' = [outcome EXCEPT ![r] = Rejected(ResponseOf(r, status))]
    /\ phase' = [phase EXCEPT ![r] = "done"]
    /\ Forget(r)
    /\ UNCHANGED <<accessCookie, refreshCookie, isRefreshing, failedQueue,
                   microtasks, refreshOwner, redirects, target, appVars>>

\* async (error) => ...
OnRejected(r, status) ==
    IF retryEligible(r, status)
    THEN IF mustQueue
         THEN Park(r, status)
         ELSE IF getRefreshToken = NoToken
              THEN NoRefreshToken(r, status)
              ELSE StartRefresh(r, status)
    ELSE OtherError(r, status)

\* the remote service answers a dispatched request (or the exchange fails)
Respond(r, status) ==
    /\ Quiescent
    /\ phase[r] = "inflight"
    /\ IF status = 200 THEN OnFulfilled(r, status) ELSE OnRejected(r, status)

\* ------------------------------------------------- the refresh exchange
\* line 184: the error the parked requests are rejected with
queueRejectionNone(refreshError) == NoValue

queueRejection(refreshError) == refreshError

\* line 191: the error the request that started the refresh is rejected with
ownerRejectionOriginal(refreshError, original) == original

ownerRejection(refreshError, original) == refreshError

\* lines 169-171: the refresh credential is stored only when the answer has one
storeRefreshAlways(old, newRefreshToken) == setRefreshToken(old, newRefreshToken)

storeRefresh(old, newRefreshToken) ==
    IF newRefreshToken # Missing THEN setRefreshToken(old, newRefreshToken) ELSE old

\* lines 165-180 and the finally clause: the exchange succeeded
RefreshSucceeds(access_token, newRefreshToken) ==
    /\ Quiescent
    /\ refreshOwner # 0
    /\ LET r == refreshOwner IN
        /\ accessCookie' = setToken(accessCookie, access_token)
        /\ refreshCookie' = storeRefresh(refreshCookie, newRefreshToken)
        /\ microtasks' = processQueue(NoValue, access_token)
                           \o <<Task("dispatch", r, access_token, NoValue)>>
        /\ header' = [header EXCEPT ![r] = Bearer(access_token)]
        /\ phase' = [phase EXCEPT ![r] = "retrying"]
    /\ failedQueue' = emptied(failedQueue)
    /\ isRefreshing' = FALSE
    /\ refreshOwner' = 0
    /\ UNCHANGED <<retry, dispatches, outcome, redirects, errorStatus, target, appVars>>

\* lines 181-194: the exchange failed
RefreshFails(status) ==
    /\ Quiescent
    /\ refreshOwner # 0
    /\ LET r == refreshOwner
           refreshError == RefreshError(r, status)
       IN
        /\ accessCookie' = clearAll(accessCookie)
        /\ refreshCookie' = clearAll(refreshCookie)
        /\ microtasks' = processQueue(queueRejection(refreshError), NoToken)
        /\ outcome' = [outcome EXCEPT
                         ![r] = Rejected(ownerRejection(refreshError, ResponseOf(r, 401)))]
        /\ phase' = [phase EXCEPT ![r] = "done"]
        /\ Forget(r)
    /\ failedQueue' = emptied(failedQueue)
    /\ redirects' = redirects + 1
    /\ isRefreshing' = FALSE
    /\ refreshOwner' = 0
    /\ UNCHANGED <<target, appVars>>

\* the remote service issues credentials it has not issued before; every
\* request starts at most one exchange, which names the credentials of its answer
Fresh(r) == InitialToken + r

\* ------------------------------------------------------------------- Next
Next ==
    \/ \E r \in Requests : Send(r)
    \/ \E r \in Requests, status \in Statuses : Respond(r, status)
    \/ \E access_token \in {Missing, Fresh(refreshOwner)},
          newRefreshToken \in {Missing, Fresh(refreshOwner)} :
          RefreshSucceeds(access_token, newRefreshToken)
    \/ \E status \in RefreshFailures : RefreshFails(status)
    \/ RunDispatch
    \/ RunResume
    \/ Logout

Spec == Init /\ [][Next]_vars

TypeOK ==
    /\ isRefreshing \in BOOLEAN
    /\ refreshOwner \in Requests \cup {0}
    /\ \A r \in Requests : phase[r] \in {"new", "dispatching", "inflight", "parked",
                                         "refreshing", "replaying", "retrying", "done"}
    /\ Range(failedQueue) \subseteq Requests
    /\ \A r \in Requests : errorStatus[r] \in Statuses \cup {NoError}
    /\ \A r \in Requests : target[r] \in {"resource", "refresh"}

\* the remote service eventually answers every exchange, and the event loop
\* runs every scheduled promise reaction; callers and logout are free
FairSpec ==
    /\ Spec
    /\ \A r \in Requests : WF_vars(\E status \in Statuses : Respond(r, status))
    /\ WF_vars(\/ \E access_token \in {Missing, Fresh(refreshOwner)},
                     newRefreshToken \in {Missing, Fresh(refreshOwner)} :
                     RefreshSucceeds(access_token, newRefreshToken)
               \/ \E status \in RefreshFailures : RefreshFails(status))
    /\ WF_vars(RunDispatch)
    /\ WF_vars(RunResume)

\* what the client alone guarantees: api is created with timeout: 10000, so every
\* dispatch through api ends with a response or with none, and the event loop
\* runs every scheduled reaction; the refresh exchange goes through axios.post,
\* which has no timeout, so nothing ends it when the remote service is silent
TimeoutSpec ==
    /\ Spec
    /\ \A r \in Requests : WF_vars(\E status \in Statuses : Respond(r, status))
    /\ WF_vars(RunDispatch)
    /\ WF_vars(RunResume)

\* --------------------------------------------- authService.refreshToken
\* the credentials the remote service names when it answers refreshToken call r
FreshDirect(r) == InitialToken + NumRequests + r

NoRefreshTokenError(r) == [src |-> "No refresh token available", req |-> r, status |-> NoResponse]

\* handleApiError: the text of the failure the call caught, which the caller
\* wraps in a new Error: for an axios error the detail or message of its response
\* (or its own message; req and status keep track of the failure the text tells
\* of), for any other Error its message as it is
handleApiErrorGeneric(error) ==
    [src |-> "message", req |-> error.req, status |-> error.status]

handleApiError(error) ==
    IF error.src \in {"response", "refresh"}
    THEN [src |-> "message", req |-> error.req, status |-> error.status]
    ELSE error

\* taskService.ts lines 203-214: a caller invokes authService.refreshToken();
\* without a stored refresh credential the throw is caught at once, otherwise
\* the POST goes through api, interceptors included
refreshToken(r) ==
    /\ Quiescent
    /\ phase[r] = "new"
    /\ \A q \in Requests : q < r => phase[q] # "new"
    /\ IF getRefreshToken = NoToken
       THEN /\ accessCookie' = clearAll(accessCookie)
            /\ refreshCookie' = clearAll(refreshCookie)
            /\ outcome' = [outcome EXCEPT
                             ![r] = Rejected(handleApiError(NoRefreshTokenError(r)))]
            /\ phase' = [phase EXCEPT ![r] = "done"]
            /\ UNCHANGED <<microtasks, target>>
       ELSE /\ target' = [target EXCEPT ![r] = "refresh"]
            /\ phase' = [phase EXCEPT ![r] = "dispatching"]
            /\ microtasks' = <<Task("dispatch", r, NoToken, NoValue)>>
            /\ UNCHANGED <<accessCookie, refreshCookie, outcome>>
    /\ UNCHANGED <<isRefreshing, failedQueue, retry, header, dispatches,
                   refreshOwner, errorStatus, redirects, appVars>>

\* taskService.ts lines 214-229: the awaited api.post has settled and the call
\* goes on: it stores the credentials of the answer, or clears the store and
\* rejects (a promise fulfilled with undefined makes response.data throw)
refreshTokenResumes(r, access_token, newRefreshToken) ==
    /\ target[r] = "refresh"
    /\ phase[r] = "done"
    /\ IF outcome[r].state = "fulfilled" /\ outcome[r].val.src = "response"
       THEN /\ accessCookie' = setToken(accessCookie, access_token)
            /\ refreshCookie' = storeRefresh(refreshCookie, newRefreshToken)
            /\ outcome' = [outcome EXCEPT
                             ![r] = Fulfilled([src |-> "data", req |-> r, status |-> 200])]
       ELSE /\ accessCookie' = clearAll(accessCookie)
            /\ refreshCookie' = clearAll(refreshCookie)
            /\ outcome' = [outcome EXCEPT ![r] = Rejected(handleApiError(outcome[r].val))]
    /\ target' = [target EXCEPT ![r] = "resource"]
    /\ UNCHANGED <<isRefreshing, failedQueue, microtasks, phase, retry, header,
                   dispatches, refreshOwner, errorStatus, redirects, appVars>>

\* the api client together with callers of authService.refreshToken
NextDirect ==
    \/ Next
    \/ \E r \in Requests : refreshToken(r)
    \/ \E r \in Requests :
          \E access_token, newRefreshToken \in {Missing, FreshDirect(r)} :
              refreshTokenResumes(r, access_token, newRefreshToken)

SpecDirect == Init /\ [][NextDirect]_vars

\* the exchanges with the refresh endpoint that are outstanding: the POST of
\* the interceptor and the POSTs of refreshToken calls on the wire
RefreshExchanges ==
    {r \in Requests : refreshOwner = r}
      \cup {r \in Requests : target[r] = "refresh" /\ phase[r] = "inflight"}

\* ------------------------------------------------------------- middleware
MaxPathLen == 3
MaxHops == 3
MaxTeardowns == 1

\* a path is a text, modelled as the sequence of the pieces it is written
\* with; the empty sequence is "/"
Chunks == {"/dashboard", "/auth", "/login", "/register", "-x"}

Paths == UNION {[1..n -> Chunks] : n \in 0..MaxPathLen}

DashboardPath == <<"/dashboard">>
LoginPath == <<"/auth", "/login">>
RegisterPath == <<"/auth", "/register">>

\* the states of the access_token cookie of a page request: absent, present
\* with the empty text, present with a text
CookieValues == {NoToken, EmptyValue, UndefinedStr, InitialToken}

\* String.prototype.startsWith
startsWithExact(pathname, route) == pathname = route

startsWith(pathname, route) ==
    /\ Len(route) <= Len(pathname)
    /\ SubSeq(pathname, 1, Len(route)) = route

protectedRoutes == {DashboardPath}

authRoutesWithDashboard == {LoginPath, RegisterPath, DashboardPath}

authRoutes == {LoginPath, RegisterPath}

isProtectedRoute(pathname) == \E route \in protectedRoutes : startsWith(pathname, route)

isAuthRoute(pathname) == \E route \in authRoutes : startsWith(pathname, route)

\* request.cookies.get('access_token')?.value as a condition: undefined (no
\* cookie) and the empty text are falsy
truthy(token) == token \notin {NoToken, EmptyValue}

\* the response of middleware(request)
middleware(pathname, token) ==
    IF isProtectedRoute(pathname) /\ ~truthy(token)
    THEN [kind |-> "redirect", pathname |-> LoginPath, from |-> <<pathname>>]
    ELSE IF isAuthRoute(pathname) /\ truthy(token)
         THEN [kind |-> "redirect", pathname |-> DashboardPath, from |-> << >>]
         ELSE [kind |-> "next", pathname |-> pathname, from |-> << >>]

\* everything of the client but the two cookies
clientVars == <<isRefreshing, failedQueue, microtasks, phase, retry, header,
                dispatches, outcome, refreshOwner, errorStatus, target>>

queryVars == <<failureCount, queryStatus, queryError>>

\* the server runs the middleware on the request; the browser follows a redirect
Middleware ==
    /\ navigation = "requested"
    /\ hops < MaxHops
    /\ LET response == middleware(url.pathname, accessCookie) IN
         IF response.kind = "redirect"
         THEN /\ url' = [pathname |-> response.pathname, from |-> response.from]
              /\ hops' = hops + 1
              /\ UNCHANGED navigation
         ELSE /\ navigation' = "served"
              /\ UNCHANGED <<url, hops>>
    /\ UNCHANGED <<accessCookie, refreshCookie, clientVars, redirects, queryVars>>

\* part_004 lines 150 and 154, 183 and 187: what the Session Teardown of the
\* interceptor means to the page: the cookies are removed, then the browser is
\* sent to /auth/login
TeardownNavigation ==
    /\ navigation = "served"
    /\ redirects < MaxTeardowns
    /\ accessCookie' = clearAll(accessCookie)
    /\ refreshCookie' = clearAll(refreshCookie)
    /\ redirects' = redirects + 1
    /\ url' = [pathname |-> LoginPath, from |-> << >>]
    /\ navigation' = "requested"
    /\ hops' = 0
    /\ UNCHANGED <<clientVars, queryVars>>

\* ---------------------------------------------------- current-user query
\* useAuth.ts line 37: failureCount < 3
MaxRetries == 3

\* what api.get(endpoints.users.me) can settle with, interceptors included
ApiOutcomes ==
    {Fulfilled(ResponseOf(1, 200)), Fulfilled(Undefined)}
      \cup {Rejected(ResponseOf(1, status)) : status \in Statuses \ {200}}
      \cup {Rejected(RefreshError(1, status)) : status \in RefreshFailures}

\* taskService.ts lines 249-256: the data of the response, or a new Error that
\* carries the text of handleApiError and nothing else of the failure
getCurrentUser(settled) ==
    IF settled.state = "fulfilled" /\ settled.val.src = "response"
    THEN Fulfilled([src |-> "data", req |-> settled.val.req, status |-> settled.val.status])
    ELSE Rejected(handleApiError(settled.val))

\* error.response?.status: defined only on an error that carries a response
responseStatus(error) ==
    IF error.src \in {"response", "refresh"} /\ error.status # NoResponse
    THEN error.status
    ELSE NoError

\* useAuth.ts lines 32-38: the retry option of useCurrentUser
useCurrentUserRetry(count, error) ==
    IF responseStatus(error) = 401 THEN FALSE ELSE count < MaxRetries

\* the query runs its queryFn; on a failure the retry option decides
FetchCurrentUser(settled) ==
    /\ navigation = "served"
    /\ queryStatus \in {"idle", "retrying"}
    /\ LET result == getCurrentUser(settled) IN
         IF result.state = "fulfilled"
         THEN /\ queryStatus' = "success"
              /\ queryError' = NoValue
              /\ failureCount' = 0
         ELSE /\ queryError' = result.val
              /\ IF useCurrentUserRetry(failureCount, result.val)
                 THEN queryStatus' = "retrying" /\ failureCount' = failureCount + 1
                 ELSE queryStatus' = "error" /\ UNCHANGED failureCount
    /\ UNCHANGED <<accessCookie, refreshCookie, clientVars, redirects, url,
                   navigation, hops>>

\* the query is run anew (refetch on focus, invalidation)
Refetch ==
    /\ queryStatus \in {"success", "error"}
    /\ queryStatus' = "idle"
    /\ failureCount' = 0
    /\ queryError' = NoValue
    /\ UNCHANGED <<accessCookie, refreshCookie, clientVars, redirects, url,
                   navigation, hops>>

\* ------------------------------------------------------- the page shell
\* the browser asks for a page, any path with any state of the cookies
InitApp ==
    /\ accessCookie \in CookieValues
    /\ refreshCookie \in {NoToken, InitialToken}
    /\ isRefreshing = FALSE
    /\ failedQueue = << >>
    /\ microtasks = << >>
    /\ phase = [r \in Requests |-> "new"]
    /\ retry = [r \in Requests |-> FALSE]
    /\ header = [r \in Requests |-> NoHeader]
    /\ dispatches = [r \in Requests |-> 0]
    /\ outcome = [r \in Requests |-> Pending]
    /\ refreshOwner = 0
    /\ errorStatus = [r \in Requests |-> NoError]
    /\ target = [r \in Requests |-> "resource"]
    /\ redirects = 0
    /\ url \in [pathname : Paths, from : {<< >>}]
    /\ navigation = "requested"
    /\ hops = 0
    /\ failureCount = 0
    /\ queryStatus = "idle"
    /\ queryError = NoValue

NextApp ==
    \/ Middleware
    \/ TeardownNavigation
    \/ navigation = "served" /\ Logout
    \/ \E settled \in ApiOutcomes : FetchCurrentUser(settled)
    \/ Refetch

AppSpec == InitApp /\ [][NextApp]_vars

\* ------------------------------------------------------- step predicates
\* in this step the dispatch of r is answered with a 401: r leaves the wire and
\* its caller is not handed a success or a failure of another status
Answered401(r) ==
    /\ phase[r] = "inflight"
    /\ phase'[r] # "inflight"
    /\ outcome'[r].state # "fulfilled"
    /\ outcome'[r].state = "rejected" =>
          outcome'[r].val.src = "response" /\ outcome'[r].val.status = 401

\* in this step the outstanding refresh exchange settles
RefreshSettled == refreshOwner # 0 /\ refreshOwner' = 0

\* in this step a POST to the refresh endpoint is issued
RefreshPosted == refreshOwner' # 0 /\ refreshOwner' # refreshOwner

\* ---------------------------------------------------------------- claims

\* C1: with a refresh credential stored, among requests that receive their first
\* 401 before the refresh has settled, the first 401 issues the one POST to the
\* refresh endpoint and every later 401 is parked on failedQueue without a POST.
C1_SingleFlight ==
    [][ /\ \A r \in Requests :
            (Answered401(r) /\ dispatches[r] = 1 /\ refreshOwner # 0) =>
                /\ refreshOwner' = refreshOwner
                /\ failedQueue' = Append(failedQueue, r)
        /\ \A r \in Requests :
            (Answered401(r) /\ dispatches[r] = 1 /\ ~isRefreshing
                 /\ refreshCookie # NoToken) =>
                /\ refreshOwner' = r
                /\ failedQueue' = failedQueue
        /\ RefreshPosted => refreshOwner = 0 ]_vars

\* three requests saw their first 401 during one exchange: one started it, two are parked
C1_Witness ==
    /\ refreshOwner # 0
    /\ Len(failedQueue) = 2
    /\ \A r \in Range(failedQueue) \cup {refreshOwner} : dispatches[r] = 1

\* C2: every request that received a 401, the one that started the refresh and
\* every parked one, eventually has its caller's promise settled, provided the
\* remote service answers every exchange.
C2_EventuallySettled ==
    \A r \in Requests :
        (phase[r] \in {"parked", "refreshing"}) ~> (outcome[r].state # "pending")

\* C3: a replay answered 401 neither starts nor joins a refresh and is rejected
\* to its caller in the same step, for the request that started the refresh and
\* for a request that was parked.
C3_ReplayTerminal ==
    [][ \A r \in Requests :
            (Answered401(r) /\ dispatches[r] >= 2) =>
                /\ outcome'[r] = Rejected(ResponseOf(r, 401))
                /\ refreshOwner' = refreshOwner
                /\ failedQueue' = failedQueue ]_vars

\* C4: after the handler of a first 401 found no refresh credential, the refresh
\* state is Idle again.
C4_IdleAfterNoCredential ==
    [][ \A r \in Requests :
            (Answered401(r) /\ ~retry[r] /\ ~isRefreshing /\ refreshCookie = NoToken) =>
                ~isRefreshing' ]_vars

\* in this step the outstanding refresh exchange settles as a failure
RefreshFailed == RefreshSettled /\ outcome'[refreshOwner].state = "rejected"

\* a request whose refresh exchange failed
FailedRefreshes ==
    {r \in Requests : outcome[r].val.src = "refresh" /\ outcome[r].val.req = r}

\* the entries of failedQueue for r, plus the scheduled reactions of r's parked promise
Entries(r) ==
    Cardinality({i \in DOMAIN failedQueue : failedQueue[i] = r})
      + Cardinality({i \in DOMAIN microtasks :
                       microtasks[i].kind = "resume" /\ microtasks[i].req = r})

Resumes(tasks, r) ==
    {i \in DOMAIN tasks : tasks[i].kind = "resume" /\ tasks[i].req = r}

C6_ExactlyOnceAfterSettle ==
    /\ [](\A r \in Requests : Entries(r) = IF phase[r] = "parked" THEN 1 ELSE 0)
    /\ [][ \A r \in Requests :
             /\ (r \in Range(failedQueue) /\ r \notin Range(failedQueue')) =>
                    RefreshSettled /\ Cardinality(Resumes(microtasks', r)) = 1
             /\ Cardinality(Resumes(microtasks', r)) > Cardinality(Resumes(microtasks, r)) =>
                    RefreshSettled /\ r \in Range(failedQueue) ]_vars

\* two parked entries were drained by a settlement and their reactions are scheduled
C6_Witness ==
    /\ failedQueue = << >>
    /\ Cardinality({i \in DOMAIN microtasks : microtasks[i].kind = "resume"}) = 2

\* C7: a parked request replayed after a successful refresh carries the access
\* credential that refresh returned and stored, never the one of the dispatch
\* that was answered 401.
C7_ReplayCarriesNewToken ==
    [][ \A r \in Requests :
          /\ (phase[r] = "parked" /\ phase'[r] = "replaying") =>
                /\ header'[r] = Bearer(Head(microtasks).token)
                /\ header'[r] = Bearer(accessCookie)
                /\ header'[r] # header[r]
          /\ (phase[r] = "replaying" /\ phase'[r] = "inflight") =>
                /\ header'[r] = header[r]
                /\ header'[r] = Bearer(accessCookie) ]_vars

\* a parked request is on the wire again, carrying the credential the refresh stored
C7_Witness ==
    \E r \in Requests :
        /\ phase[r] = "inflight"
        /\ dispatches[r] = 2
        /\ ~retry[r]
        /\ header[r] = Bearer(accessCookie)
        /\ accessCookie > InitialToken

\* C8: when the refresh exchange fails, both cookies are cleared, and the request
\* that started it and every parked request are rejected with the same error
\* without being dispatched again.
C8_UniformFailure ==
    [][ /\ RefreshFailed =>
            /\ accessCookie' = NoToken /\ refreshCookie' = NoToken
            /\ outcome'[refreshOwner].val.src = "refresh"
            /\ \A q \in Range(failedQueue) : \E i \in Resumes(microtasks', q) :
                   microtasks'[i].err = outcome'[refreshOwner].val
        /\ \A r \in Requests :
            (phase[r] = "parked" /\ phase'[r] # "parked" /\ Head(microtasks).err.src = "refresh") =>
                /\ outcome'[r] = Rejected(Head(microtasks).err)
                /\ outcome'[r] = outcome[Head(microtasks).err.req]
                /\ phase'[r] = "done"
                /\ microtasks' = Tail(microtasks) ]_vars

\* after a failed exchange with two parked requests, all three callers hold the same rejection
C8_Witness ==
    \E r \in Requests :
        /\ outcome[r] = Rejected(RefreshError(r, NoResponse))
        /\ \A q \in Requests : outcome[q] = outcome[r]
        /\ accessCookie = NoToken /\ refreshCookie = NoToken

\* C9: a failed refresh runs the teardown (clear the store, redirect to
\* /auth/login) exactly once, in the step that settles it, however many requests
\* were parked on it; rejecting the parked requests runs no teardown.
C9_TeardownOnce ==
    [][ /\ RefreshFailed =>
            /\ redirects' = redirects + 1
            /\ accessCookie' = NoToken /\ refreshCookie' = NoToken
        /\ \A r \in Requests :
            (phase[r] = "parked" /\ outcome'[r].state = "rejected") =>
                /\ redirects' = redirects
                /\ accessCookie' = accessCookie /\ refreshCookie' = refreshCookie ]_vars

\* one failed exchange rejected two parked requests and redirected once
C9_Witness ==
    /\ redirects = 1
    /\ Cardinality(FailedRefreshes) = 1
    /\ Cardinality({r \in Requests : outcome[r].val.src = "refresh"}) = 3

\* C10 (as stated): a replay answered 401 ends with the teardown: the store is
\* cleared and the redirect made, and the caller is rejected.
C10_ReplayFailureTearsDown ==
    [][ \A r \in Requests :
            (Answered401(r) /\ dispatches[r] >= 2 /\ retry[r]) =>
                /\ outcome'[r].state = "rejected"
                /\ accessCookie' = NoToken /\ refreshCookie' = NoToken
                /\ redirects' = redirects + 1 ]_vars

\* C10 (amended): when the replay of the request that started the refresh is
\* answered 401, its caller is rejected with that 401 and nothing else happens:
\* the store is left as it is and no redirect is made.
C10_ReplayFailureOnlyRejects ==
    [][ \A r \in Requests :
            (Answered401(r) /\ dispatches[r] >= 2 /\ retry[r]) =>
                /\ outcome'[r] = Rejected(ResponseOf(r, 401))
                /\ accessCookie' = accessCookie /\ refreshCookie' = refreshCookie
                /\ redirects' = redirects
                /\ isRefreshing' = isRefreshing /\ refreshOwner' = refreshOwner
                /\ failedQueue' = failedQueue ]_vars

\* the replay of the request that started a refresh was rejected with its 401
\* while the refreshed credentials are still stored
C10_Witness ==
    \E r \in Requests :
        /\ outcome[r].state = "rejected"
        /\ outcome[r].val.src = "response" /\ outcome[r].val.status = 401
        /\ accessCookie = Fresh(r)
        /\ redirects = 0

\* C11: when a first 401 arrives while no refresh credential is stored and no
\* refresh exchange is outstanding, no POST to the refresh endpoint is issued,
\* both cookies are cleared and the caller is rejected with that 401.
C11_NoCredentialRejects ==
    [][ \A r \in Requests :
            (Answered401(r) /\ dispatches[r] = 1 /\ refreshCookie = NoToken
                 /\ refreshOwner = 0) =>
                /\ refreshOwner' = 0
                /\ accessCookie' = NoToken /\ refreshCookie' = NoToken
                /\ outcome'[r] = Rejected(ResponseOf(r, 401)) ]_vars

\* C12: a request is put on the wire at most twice, the original dispatch and
\* one replay.
C12_AtMostTwoDispatches == \A r \in Requests : dispatches[r] <= 2

\* C14: the step that settles a refresh exchange writes the store once, the new
\* access credential on success and the removal of both cookies on failure,
\* while every parked request is still parked; the store is not written again
\* until all of them are resumed, so each resumed request finds that store.
C14_StoreUpdatedBeforeResume ==
    [][ /\ (RefreshSettled /\ ~RefreshFailed) =>
            /\ accessCookie' # NoToken
            /\ header'[refreshOwner] = <<"Bearer", accessCookie'>>
        /\ RefreshFailed =>
            accessCookie' = NoToken /\ refreshCookie' = NoToken
        /\ RefreshSettled =>
            \A q \in Range(failedQueue) :
                phase'[q] = "parked" /\ Resumes(microtasks', q) # {}
        /\ (\E i \in 1..Len(microtasks) : microtasks[i].kind = "resume") =>
            accessCookie' = accessCookie /\ refreshCookie' = refreshCookie ]_vars

\* a parked request is about to be resumed and the store already holds the
\* access credential of the exchange it waited for
C14_Witness ==
    /\ microtasks # << >>
    /\ Head(microtasks).kind = "resume"
    /\ phase[Head(microtasks).req] = "parked"
    /\ Head(microtasks).token > InitialToken
    /\ accessCookie = Head(microtasks).token

\* C15: the settlement of a refresh exchange, success or failure, leaves
\* isRefreshing false and failedQueue empty; and in every state, isRefreshing
\* false implies failedQueue empty.
C15_IdleMeansDrained ==
    /\ [](~isRefreshing => failedQueue = << >>)
    /\ [][RefreshSettled => (~isRefreshing' /\ failedQueue' = << >>)]_vars

\* after a settlement that resumed a parked request the state is Idle again and
\* the list is empty
C15_Witness ==
    /\ ~isRefreshing
    /\ failedQueue = << >>
    /\ \E r \in Requests : phase[r] = "replaying"

\* C16: a refresh exchange the remote service does not answer is ended by the
\* client's timeout: every outstanding exchange is eventually settled, and with
\* it the request that started it and the requests parked on it.
C16_RefreshTimesOut ==
    /\ (refreshOwner # 0) ~> (refreshOwner = 0)
    /\ \A r \in Requests :
          (phase[r] = "refreshing") ~> (outcome[r].state # "pending")

\* C17: after a successful refresh every request that waited on it is replayed,
\* and the answer to that replay, whatever it is, settles its caller's promise.
C17_ReplayOutcomeSettles ==
    [][ \A r \in Requests :
          /\ (phase[r] = "parked" /\ phase'[r] # "parked"
                 /\ Head(microtasks).err = NoValue) =>
                phase'[r] = "replaying"
          /\ (phase[r] = "inflight" /\ dispatches[r] >= 2 /\ phase'[r] # "inflight") =>
                /\ phase'[r] = "done"
                /\ outcome'[r].val.src = "response"
                /\ outcome'[r].val.req = r ]_vars

\* C18: a successful refresh whose answer names no refresh credential leaves the
\* stored one as it was: after the step the cookie is the one stored before
\* unless it is the credential the answer named.
C18_RefreshCredentialKept ==
    [][ (RefreshSettled /\ ~RefreshFailed) =>
            (refreshCookie' # Fresh(refreshOwner) => refreshCookie' = refreshCookie) ]_vars

\* a second refresh is started with the initial refresh credential, kept by an
\* earlier successful refresh that replaced only the access credential
C18_Witness ==
    /\ refreshOwner # 0
    /\ refreshCookie = InitialToken
    /\ \E q \in Requests \ {refreshOwner} : accessCookie = Fresh(q)

\* C19: when a dispatch is answered with a success or with a failure that is not
\* a 401, the caller's promise settles in that step with that very response, and
\* isRefreshing, failedQueue, the store, the refresh exchange and the scheduled
\* reactions are left as they were: no refresh is started, nothing is replayed.
C19_PassThrough ==
    [][ \A r \in Requests :
          (phase[r] = "inflight" /\ phase'[r] # "inflight") =>
             LET answer == IF phase'[r] = "done" THEN outcome'[r].val.status
                                                 ELSE errorStatus'[r]
             IN  answer # 401 =>
                   /\ phase'[r] = "done"
                   /\ outcome'[r] = IF answer = 200
                                     THEN Fulfilled(ResponseOf(r, answer))
                                     ELSE Rejected(ResponseOf(r, answer))
                   /\ UNCHANGED <<isRefreshing, failedQueue, accessCookie,
                                   refreshCookie, refreshOwner, microtasks,
                                   redirects>> ]_vars

\* a request failed with 403 while a refresh exchange was outstanding with a
\* request parked on it: the caller holds the 403 and the refresh goes on
C19_Witness ==
    \E r \in Requests :
        /\ outcome[r] = Rejected(ResponseOf(r, 403))
        /\ refreshOwner # 0
        /\ failedQueue # << >>
        /\ accessCookie = InitialToken /\ refreshCookie = InitialToken

C13_OneRefreshExchange == Cardinality(RefreshExchanges) <= 1

\* C21: every dispatch through api, the original one or a replay, goes on the
\* wire with 'Bearer <token>' for the access credential stored at that moment,
\* and with no Authorization header when none is stored.
C21_DispatchCarriesStoredToken ==
    [][ \A r \in Requests :
          (phase[r] # "inflight" /\ phase'[r] = "inflight") =>
             header'[r] = IF accessCookie # NoToken
                          THEN <<"Bearer", accessCookie>>
                          ELSE NoHeader ]_vars

\* a request dispatched while no access credential was stored is on the wire
\* without a header, next to a replay that carries the credential stored since
C21_Witness ==
    \E r, q \in Requests :
        /\ phase[r] = "inflight" /\ dispatches[r] = 1 /\ header[r] = NoHeader
        /\ phase[q] = "inflight" /\ dispatches[q] = 2
        /\ accessCookie # NoToken
        /\ header[q] = <<"Bearer", accessCookie>>

\* the text p begins with the text route
BeginsWith(p, route) ==
    /\ Len(p) >= Len(route)
    /\ \A i \in 1..Len(route) : p[i] = route[i]

\* C22 (as stated): the middleware answers a page request with a redirect to
\* /auth/login?from=<path> exactly when the path starts with /dashboard and no
\* access_token cookie is present, with a redirect to /dashboard exactly when
\* the path starts with /auth/login or /auth/register and the cookie is present,
\* and lets the request through otherwise.
C22_MiddlewareByCookiePresence ==
    [][ (navigation = "requested" /\ (hops' # hops \/ navigation' = "served")) =>
          LET p == url.pathname
              present == accessCookie # NoToken
              toLogin == BeginsWith(p, DashboardPath) /\ ~present
              toDashboard == (BeginsWith(p, LoginPath) \/ BeginsWith(p, RegisterPath))
                                /\ present
          IN  /\ toLogin <=> (hops' = hops + 1
                                /\ url' = [pathname |-> LoginPath, from |-> <<p>>])
              /\ toDashboard <=> (hops' = hops + 1
                                    /\ url' = [pathname |-> DashboardPath, from |-> << >>])
              /\ (~toLogin /\ ~toDashboard) <=> (navigation' = "served" /\ url' = url) ]_vars

\* C22 (amended): the same with "the cookie is present" read as "the cookie is
\* present and its value is not the empty text".
C22_MiddlewareByCookieValue ==
    [][ (navigation = "requested" /\ (hops' # hops \/ navigation' = "served")) =>
          LET p == url.pathname
              present == accessCookie # NoToken /\ accessCookie # EmptyValue
              toLogin == BeginsWith(p, DashboardPath) /\ ~present
              toDashboard == (BeginsWith(p, LoginPath) \/ BeginsWith(p, RegisterPath))
                                /\ present
          IN  /\ toLogin <=> (hops' = hops + 1
                                /\ url' = [pathname |-> LoginPath, from |-> <<p>>])
              /\ toDashboard <=> (hops' = hops + 1
                                    /\ url' = [pathname |-> DashboardPath, from |-> << >>])
              /\ (~toLogin /\ ~toDashboard) <=> (navigation' = "served" /\ url' = url) ]_vars

\* a request for a page below /dashboard carrying an empty access_token cookie
\* was sent to /auth/login with the path it asked for
C22_Witness ==
    /\ hops = 1
    /\ accessCookie = EmptyValue
    /\ url.pathname = LoginPath
    /\ \E p \in Paths : Len(p) = MaxPathLen /\ url.from = <<p>>

\* C23: when getCurrentUser fails because the remote service answered 401, the
\* retry option of the current-user query returns false: the query is not
\* waiting for another attempt after such a failure.
C23_NoRetryOn401 ==
    queryStatus = "retrying" => queryError.status # 401

\* C30: following the middleware's redirects reaches a page that is let through
\* after at most one redirect, and the request for /auth/login made once the
\* store is cleared is not answered with a redirect to /dashboard.
C30_AtMostOneRedirect ==
    /\ [](hops <= 1)
    /\ [][ (navigation = "requested" /\ url.pathname = LoginPath
               /\ accessCookie = NoToken) =>
              (hops' = hops /\ url' = url) ]_vars

\* the teardown sent the browser to /auth/login with the store cleared, and
\* the middleware let that request through without a redirect
C30_Witness ==
    /\ redirects = 1
    /\ accessCookie = NoToken
    /\ navigation = "served"
    /\ url.pathname = LoginPath
    /\ hops = 0

\* C24: a call of authService.refreshToken made while no refresh credential is
\* stored rejects with the Error 'No refresh token available' and puts no
\* request on the wire: while none is stored, whatever leaves the callers is an
\* ordinary request through api or ends at once with that rejection, and no
\* request addressed to the refresh endpoint comes to exist.
C24_NoTokenNoRequest ==
    [][ \A r \in Requests :
          /\ (phase[r] = "new" /\ phase'[r] # "new" /\ refreshCookie = NoToken) =>
                \/ phase'[r] = "dispatching" /\ target'[r] = "resource"
                \/ /\ phase'[r] = "done"
                   /\ outcome'[r] = Rejected(NoRefreshTokenError(r))
                   /\ dispatches'[r] = 0
                   /\ microtasks' = microtasks
          /\ (phase[r] = "new" /\ phase'[r] = "done") => refreshCookie = NoToken ]_vars

\* a refreshToken call was rejected for want of a refresh credential while
\* another request was on the wire
C24_Witness ==
    \E r, q \in Requests :
        /\ outcome[r] = Rejected(NoRefreshTokenError(r))
        /\ dispatches[r] = 0
        /\ phase[q] = "inflight"

\* C25: in the step in which a call of authService.refreshToken rejects, for
\* want of a refresh credential or after its POST has failed, both cookies are
\* removed.
C25_RejectionClearsStore ==
    [][ \A r \in Requests :
          (/\ outcome'[r].state = "rejected"
           /\ \/ phase[r] = "new"
              \/ target[r] = "refresh" /\ target'[r] = "resource") =>
             accessCookie' = NoToken /\ refreshCookie' = NoToken ]_vars

\* a refreshToken call whose POST was answered 403 has rejected with the text
\* of that failure, and the store, which held both credentials, is empty
C25_Witness ==
    \E r \in Requests :
        /\ outcome[r] = Rejected([src |-> "message", req |-> r, status |-> 403])
        /\ accessCookie = NoToken /\ refreshCookie = NoToken
        /\ redirects = 0

\* C26: when a refresh settles, the parked requests are scheduled for resumption
\* in the order of failedQueue, and they are resumed in that order: the one
\* resumed is always the first one scheduled.
C26_ResumedInEnrollmentOrder ==
    [][ /\ RefreshSettled =>
            \A i \in 1..Len(failedQueue) :
                microtasks'[i].kind = "resume" /\ microtasks'[i].req = failedQueue[i]
        /\ \A r \in Requests :
            (phase[r] = "parked" /\ phase'[r] # "parked") =>
                /\ Head(microtasks).kind = "resume"
                /\ Head(microtasks).req = r
                /\ SubSeq(microtasks', 1, Len(microtasks) - 1) = Tail(microtasks) ]_vars

\* two requests are about to be resumed, the one that was parked first ahead of
\* one that was issued before it
C26_Witness ==
    /\ Len(microtasks) >= 2
    /\ microtasks[1].kind = "resume" /\ microtasks[2].kind = "resume"
    /\ microtasks[1].req > microtasks[2].req
    /\ phase[microtasks[1].req] = "parked" /\ phase[microtasks[2].req] = "parked"

\* C27: once the store is empty it stays empty (no login or register happens):
\* nothing that was in flight when logout ran stores a credential afterwards.
C27_StaysLoggedOut ==
    [][ (accessCookie = NoToken /\ refreshCookie = NoToken) =>
            (accessCookie' = NoToken /\ refreshCookie' = NoToken) ]_vars

\* C28: the promise of a parked request never fulfils with undefined.
C28_NeverUndefined ==
    \A r \in Requests : outcome[r] # Fulfilled(Undefined)

\* C29: when a replay dispatched after a successful refresh is answered with a
\* failure that is not a 401, the caller is rejected with that failure, the
\* cookies stay as they are and no redirect is made.
C29_ReplayErrorKeepsSession ==
    [][ \A r \in Requests :
          (phase[r] = "inflight" /\ dispatches[r] >= 2 /\ phase'[r] = "done"
             /\ outcome'[r].state = "rejected" /\ outcome'[r].val.status # 401) =>
            /\ outcome'[r].val.src = "response" /\ outcome'[r].val.req = r
            /\ accessCookie' = accessCookie /\ refreshCookie' = refreshCookie
            /\ redirects' = redirects ]_vars

\* the replay of the request that started a refresh failed with 500; its caller
\* holds that failure and both refreshed credentials are still stored
C29_Witness ==
    \E r \in Requests :
        /\ outcome[r] = Rejected(ResponseOf(r, 500))
        /\ accessCookie = Fresh(r) /\ refreshCookie = Fresh(r)
        /\ redirects = 0

====
